---- MODULE Spec2Model ----
(***************************************************************************)
(* Model of kdb_server.py: the process-wide connection handle, the         *)
(* connect-then-query lifecycle of execute_kdb_query and the three         *)
(* read-only tools.  Text is a sequence of characters; JSON null and a     *)
(* Python None value are the empty tuple, a present value x is <<x>>.      *)
(* The timestamp field of every reply is left out.                         *)
(***************************************************************************)
EXTENDS Integers, Sequences, FiniteSets, TLC

VARIABLES
    kdb_connection, \* the global handle: None or the identity of a kola.Q object
    created,        \* number of kola.Q objects constructed so far
    portOk,         \* whether KDB_PORT (if set) parses as an integer
    pc,             \* position of the call in progress, "idle" between calls
    op,             \* operation in progress or last returned
    handle0,        \* the handle as it was when the operation was entered
    query,          \* the query argument of the operation
    calls,          \* library calls made by the operation, in order
    result,         \* local `result` of execute_kdb_query
    py_result,      \* local `py_result` of execute_kdb_query
    ret             \* what the operation returned (or that it raised)

vars == <<kdb_connection, created, portOk, pc, op, handle0, query, calls,
          result, py_result, ret>>

\* ---------------------------------------------------------------- bounds
MaxLen == 2
MaxConnects == 2

\* ------------------------------------------------------------- constants
DefaultPort == 4000
DefaultHost == "localhost"
CannotConnect == "Cannot connect to KDB+"
EmptyQueryWarning == "Empty query"
SelectHelp == "KDB+ SELECT: select [columns] from table [where conditions]"
TopicsHelp == "Available help topics: select"

None == 0
Null == <<>>

Chars == {"a", " "}
Whitespace == {" ", "\t", "\n"}
Queries == UNION {[1..n -> Chars] : n \in 0..MaxLen}
Topics == {"", "select", "join"}
\* messages of the exceptions the client library and the encoder raise
ExcMsgs == {"connection refused", "type"}
\* replies of the remote database: whether the object has a py() method and
\* what kind of Python value it stands for
Results == {[hasPy |-> TRUE, kind |-> "int"],
            [hasPy |-> TRUE, kind |-> "date"],
            [hasPy |-> TRUE, kind |-> "keyed"],
            [hasPy |-> FALSE, kind |-> "int"]}

\* ------------------------------------------------------------- helpers
RECURSIVE lstrip(_)
lstrip(s) ==
    IF s = <<>> THEN <<>>
    ELSE IF Head(s) \in Whitespace THEN lstrip(Tail(s)) ELSE s

RECURSIVE rstrip(_)
rstrip(s) ==
    IF s = <<>> THEN <<>>
    ELSE IF s[Len(s)] \in Whitespace THEN rstrip(SubSeq(s, 1, Len(s) - 1)) ELSE s

strip(s) == rstrip(lstrip(s))

Ok(c, a) == [call |-> c, ok |-> TRUE, msg |-> "", arg |-> a]
Failed(c, a, m) == [call |-> c, ok |-> FALSE, msg |-> m, arg |-> a]

NoRet == [raised |-> FALSE, val |-> Null]
Returned(v) == [raised |-> FALSE, val |-> v]

\* type(py_result).__name__
type_name(r) ==
    CASE r.kind = "int" -> "int"
      [] r.kind = "date" -> "date"
      [] r.kind = "keyed" -> "dict"

\* json.dumps(..., default=str) of the data: a native value is kept, a value
\* the encoder does not know is replaced by its str(), a dictionary keyed by
\* such values cannot be encoded
dumps_ok(r) == r.kind # "keyed"
dumps_data(r) ==
    CASE r.kind = "int" -> 2
      [] r.kind = "date" -> "2024-01-01"
      [] OTHER -> Null

\* ------------------------------------------------------------------ Init
Init ==
    /\ kdb_connection = None
    /\ created = 0
    /\ portOk \in BOOLEAN
    /\ pc = "idle"
    /\ op = "none"
    /\ handle0 = None
    /\ query = <<>>
    /\ calls = <<>>
    /\ result = Null
    /\ py_result = Null
    /\ ret = NoRet

\* --------------------------------------------------------- connect_to_kdb
\* a direct call (server startup, --test, or any caller of the module)
connect_call ==
    /\ pc = "idle"
    /\ created < MaxConnects
    /\ pc' = "connect_to_kdb"
    /\ op' = "connect"
    /\ handle0' = kdb_connection
    /\ calls' = <<>>
    /\ ret' = NoRet
    /\ UNCHANGED <<kdb_connection, created, portOk, query, result, py_result>>

connect_return(b) ==
    /\ ret' = Returned(b)
    /\ pc' = IF op = "execute" THEN "after_connect" ELSE "idle"

\* variant: a failed connect clears the handle
connect_to_kdb_clears ==
    /\ pc = "connect_to_kdb"
    /\ \/ /\ portOk
          /\ kdb_connection' = created + 1
          /\ created' = created + 1
          /\ calls' = Append(calls, Ok("connect_to_kdb", Null))
          /\ connect_return(TRUE)
       \/ /\ kdb_connection' = None
          /\ created' = created
          /\ calls' = Append(calls, Failed("connect_to_kdb", Null, "refused"))
          /\ connect_return(FALSE)
    /\ UNCHANGED <<portOk, op, handle0, query, result, py_result>>

\* the body: int(KDB_PORT) and kola.Q(...) either both succeed, and the new
\* object replaces the handle, or one raises, which is caught
connect_to_kdb ==
    /\ pc = "connect_to_kdb"
    /\ \/ /\ portOk
          /\ kdb_connection' = created + 1
          /\ created' = created + 1
          /\ calls' = Append(calls, Ok("connect_to_kdb", Null))
          /\ connect_return(TRUE)
       \/ /\ UNCHANGED <<kdb_connection, created>>
          /\ calls' = Append(calls, Failed("connect_to_kdb", Null, "refused"))
          /\ connect_return(FALSE)
    /\ UNCHANGED <<portOk, op, handle0, query, result, py_result>>

\* ------------------------------------------------------ execute_kdb_query
\* variant: the failure reply keeps the partial result
exec_except_keeps_result(m) ==
    /\ ret' = Returned([success |-> FALSE, error |-> <<m>>,
                        result |-> <<[data |-> Null, type |-> "NoneType"]>>,
                        query |-> query])
    /\ pc' = "idle"

exec_except(m) ==
    /\ ret' = Returned([success |-> FALSE, error |-> <<m>>, query |-> query])
    /\ pc' = "idle"

\* variant: an existing handle is used without a new handshake
execute_kdb_query_lazy(q) ==
    /\ pc = "idle"
    /\ op' = "execute"
    /\ handle0' = kdb_connection
    /\ query' = q
    /\ calls' = <<>>
    /\ result' = Null
    /\ py_result' = Null
    /\ ret' = NoRet
    /\ pc' = IF kdb_connection = None THEN "connect_to_kdb" ELSE "sync"
    /\ UNCHANGED <<kdb_connection, created, portOk>>

execute_kdb_query(q) ==
    /\ pc = "idle"
    /\ op' = "execute"
    /\ handle0' = kdb_connection
    /\ query' = q
    /\ calls' = <<>>
    /\ result' = Null
    /\ py_result' = Null
    /\ ret' = NoRet
    /\ pc' = IF kdb_connection = None THEN "connect_to_kdb" ELSE "handshake"
    /\ UNCHANGED <<kdb_connection, created, portOk>>

\* variant: the failed connect is reported with the cause instead of the fixed text
exec_after_connect_cause ==
    /\ pc = "after_connect"
    /\ IF ret.val
       THEN /\ pc' = "handshake"
            /\ ret' = NoRet
       ELSE /\ pc' = "idle"
            /\ ret' = Returned([success |-> FALSE, error |-> <<"refused">>,
                                query |-> query])
    /\ UNCHANGED <<kdb_connection, created, portOk, op, handle0, query, calls,
                   result, py_result>>

\* variant: the early return after a failed connect is missing
exec_after_connect_falls_through ==
    /\ pc = "after_connect"
    /\ pc' = "handshake"
    /\ ret' = NoRet
    /\ UNCHANGED <<kdb_connection, created, portOk, op, handle0, query, calls,
                   result, py_result>>

exec_after_connect ==
    /\ pc = "after_connect"
    /\ IF ret.val
       THEN /\ pc' = "handshake"
            /\ ret' = NoRet
       ELSE /\ pc' = "idle"
            /\ ret' = Returned([success |-> FALSE, error |-> <<CannotConnect>>,
                                query |-> query])
    /\ UNCHANGED <<kdb_connection, created, portOk, op, handle0, query, calls,
                   result, py_result>>

\* variant: a failed handshake drops the handle
exec_handshake_drops ==
    /\ pc = "handshake"
    /\ \/ /\ calls' = Append(calls, Ok("handshake", Null))
          /\ pc' = "sync"
          /\ ret' = ret
          /\ kdb_connection' = kdb_connection
       \/ \E m \in ExcMsgs :
            /\ calls' = Append(calls, Failed("handshake", Null, m))
            /\ exec_except(m)
            /\ kdb_connection' = None
    /\ UNCHANGED <<created, portOk, op, handle0, query, result, py_result>>

exec_handshake ==
    /\ pc = "handshake"
    /\ \/ /\ calls' = Append(calls, Ok("handshake", Null))
          /\ pc' = "sync"
          /\ ret' = ret
       \/ \E m \in ExcMsgs :
            /\ calls' = Append(calls, Failed("handshake", Null, m))
            /\ exec_except(m)
    /\ UNCHANGED <<kdb_connection, created, portOk, op, handle0, query,
                   result, py_result>>

\* variant: the query is trimmed before it is submitted
exec_sync_stripped ==
    /\ pc = "sync"
    /\ \/ \E r \in Results :
            /\ calls' = Append(calls, Ok("sync", strip(query)))
            /\ result' = <<r>>
            /\ pc' = "convert"
            /\ ret' = ret
       \/ \E m \in ExcMsgs :
            /\ calls' = Append(calls, Failed("sync", strip(query), m))
            /\ result' = result
            /\ exec_except(m)
    /\ UNCHANGED <<kdb_connection, created, portOk, op, handle0, query,
                   py_result>>

exec_sync ==
    /\ pc = "sync"
    /\ \/ \E r \in Results :
            /\ calls' = Append(calls, Ok("sync", query))
            /\ result' = <<r>>
            /\ pc' = "convert"
            /\ ret' = ret
       \/ \E m \in ExcMsgs :
            /\ calls' = Append(calls, Failed("sync", query, m))
            /\ result' = result
            /\ exec_except(m)
    /\ UNCHANGED <<kdb_connection, created, portOk, op, handle0, query,
                   py_result>>

exec_convert ==
    /\ pc = "convert"
    /\ IF result[1].hasPy
       THEN \/ /\ calls' = Append(calls, Ok("py", Null))
               /\ py_result' = result
               /\ pc' = "format"
               /\ ret' = ret
            \/ \E m \in ExcMsgs :
                 /\ calls' = Append(calls, Failed("py", Null, m))
                 /\ py_result' = py_result
                 /\ exec_except(m)
       ELSE /\ py_result' = result
            /\ pc' = "format"
            /\ UNCHANGED <<calls, ret>>
    /\ UNCHANGED <<kdb_connection, created, portOk, op, handle0, query, result>>

\* variant: the encoding of the reply happens outside the try block
exec_format_raises ==
    /\ pc = "format"
    /\ IF dumps_ok(py_result[1])
       THEN /\ calls' = Append(calls, Ok("dumps", Null))
            /\ ret' = Returned([success |-> TRUE, error |-> Null,
                                result |-> <<[data |-> dumps_data(py_result[1]),
                                              type |-> type_name(py_result[1])]>>,
                                query |-> query])
            /\ pc' = "idle"
       ELSE /\ calls' = Append(calls, Failed("dumps", Null, "type"))
            /\ ret' = [raised |-> TRUE, val |-> Null]
            /\ pc' = "idle"
    /\ UNCHANGED <<kdb_connection, created, portOk, op, handle0, query,
                   result, py_result>>

exec_format ==
    /\ pc = "format"
    /\ IF dumps_ok(py_result[1])
       THEN /\ calls' = Append(calls, Ok("dumps", Null))
            /\ ret' = Returned([success |-> TRUE, error |-> Null,
                                result |-> <<[data |-> dumps_data(py_result[1]),
                                              type |-> type_name(py_result[1])]>>,
                                query |-> query])
            /\ pc' = "idle"
       ELSE /\ calls' = Append(calls, Failed("dumps", Null, "type"))
            /\ exec_except("type")
    /\ UNCHANGED <<kdb_connection, created, portOk, op, handle0, query,
                   result, py_result>>

\* -------------------------------------------------- get_connection_status
\* variant: the presence test is inverted
get_connection_status_inverted ==
    /\ pc = "idle"
    /\ op' = "status"
    /\ handle0' = kdb_connection
    /\ calls' = <<>>
    /\ ret' = IF portOk
              THEN Returned([connected |-> kdb_connection = None,
                             host |-> DefaultHost, port |-> DefaultPort])
              ELSE [raised |-> TRUE, val |-> Null]
    /\ UNCHANGED <<kdb_connection, created, portOk, pc, query, result, py_result>>

get_connection_status ==
    /\ pc = "idle"
    /\ op' = "status"
    /\ handle0' = kdb_connection
    /\ calls' = <<>>
    /\ ret' = IF portOk
              THEN Returned([connected |-> kdb_connection # None,
                             host |-> DefaultHost, port |-> DefaultPort])
              ELSE [raised |-> TRUE, val |-> Null]
    /\ UNCHANGED <<kdb_connection, created, portOk, pc, query, result, py_result>>

\* -------------------------------------------------------- validate_syntax
\* variant: the length test is off by one
validate_syntax_off_by_one(q) ==
    LET valid == Len(strip(q)) > 1
    IN  IF strip(q) = <<>>
        THEN [query |-> q, valid |-> FALSE, warnings |-> <<EmptyQueryWarning>>]
        ELSE [query |-> q, valid |-> valid, warnings |-> <<>>]

validate_syntax(q) ==
    LET valid == Len(strip(q)) > 0
    IN  IF strip(q) = <<>>
        THEN [query |-> q, valid |-> FALSE, warnings |-> <<EmptyQueryWarning>>]
        ELSE [query |-> q, valid |-> valid, warnings |-> <<>>]

syntax_check(q) ==
    /\ pc = "idle"
    /\ op' = "validate"
    /\ handle0' = kdb_connection
    /\ calls' = <<>>
    /\ ret' = Returned(validate_syntax(q))
    /\ UNCHANGED <<kdb_connection, created, portOk, pc, query, result, py_result>>

\* --------------------------------------------------------------- get_help
get_help(topic) == IF topic = "select" THEN SelectHelp ELSE TopicsHelp

help_info(topic) ==
    /\ pc = "idle"
    /\ op' = "help"
    /\ handle0' = kdb_connection
    /\ calls' = <<>>
    /\ ret' = Returned(get_help(topic))
    /\ UNCHANGED <<kdb_connection, created, portOk, pc, query, result, py_result>>

\* ------------------------------------------------------------------ Next
Next ==
    \/ connect_call
    \/ connect_to_kdb
    \/ \E q \in Queries : execute_kdb_query(q)
    \/ exec_after_connect
    \/ exec_handshake
    \/ exec_sync
    \/ exec_convert
    \/ exec_format
    \/ get_connection_status
    \/ \E q \in Queries : syntax_check(q)
    \/ \E t \in Topics : help_info(t)

Spec == Init /\ [][Next]_vars


\* ================================================================ claims
Count(c) == Cardinality({i \in DOMAIN calls : calls[i].call = c})
FailedCall(c) == \E i \in DOMAIN calls : calls[i].call = c /\ ~calls[i].ok
OkCall(c) == \E i \in DOMAIN calls : calls[i].call = c /\ calls[i].ok
AnyFailed == \E i \in DOMAIN calls : ~calls[i].ok
ExecReturned == pc = "idle" /\ op = "execute"
ConnectReturned == (pc = "idle" /\ op = "connect") \/ pc = "after_connect"
ErrorOf(e) == IF "error" \in DOMAIN e THEN e.error ELSE Null
ResultOf(e) == IF "result" \in DOMAIN e THEN e.result ELSE Null

\* C1: execute_kdb_query never raises; it always returns an envelope, and
\* whenever handle construction, the handshake, the submission, the result
\* conversion or the JSON encoding failed, the envelope has success=false, a
\* non-null error and no result.
C1_NeverRaises ==
    ExecReturned =>
        /\ ~ret.raised
        /\ ret.val.success \in BOOLEAN
        /\ AnyFailed => /\ ret.val.success = FALSE
                        /\ ErrorOf(ret.val) # Null
                        /\ ResultOf(ret.val) = Null

C1_Witness == ExecReturned /\ FailedCall("dumps") /\ ~ret.raised

\* C2: every returned envelope has success=true => error null,
\* success=false => no result, and never both an error and a result.
C2_EnvelopeInvariant ==
    (ExecReturned /\ ~ret.raised) =>
        /\ ret.val.success => ErrorOf(ret.val) = Null
        /\ ~ret.val.success => ResultOf(ret.val) = Null
        /\ ~(ErrorOf(ret.val) # Null /\ ResultOf(ret.val) # Null)

C2_Witness ==
    ExecReturned /\ ~ret.raised /\ ret.val.success /\ ResultOf(ret.val) # Null

\* C3 as stated: whenever the session cannot be established (connect() failed
\* or the handshake on the handle failed), the error is the fixed message.
C3_Original ==
    (ExecReturned /\ (FailedCall("connect_to_kdb") \/ FailedCall("handshake"))) =>
        /\ ret.val.success = FALSE
        /\ ErrorOf(ret.val) = <<CannotConnect>>

\* C3 amended: a failed connect() inside execute_kdb_query is reported with
\* the fixed message "Cannot connect to KDB+"; a failed handshake is reported
\* with success=false and the message of the failure itself.
C3_ConnectFailureMessage ==
    ExecReturned =>
        /\ FailedCall("connect_to_kdb") =>
              /\ ret.val.success = FALSE
              /\ ErrorOf(ret.val) = <<CannotConnect>>
        /\ \A i \in DOMAIN calls :
              (calls[i].call = "handshake" /\ ~calls[i].ok) =>
                  /\ ret.val.success = FALSE
                  /\ ErrorOf(ret.val) = <<calls[i].msg>>

C3_Witness == ExecReturned /\ FailedCall("connect_to_kdb") /\ handle0 = None

C5_Original ==
    ConnectReturned =>
        /\ ret.val = TRUE => (kdb_connection # None /\ kdb_connection # handle0)
        /\ ret.val = FALSE => kdb_connection = None

\* C5 amended: a successful connect() returns true and the handle is the
\* newly created object, replacing any previous one; a failed connect()
\* returns false and leaves the handle as it was (absent if it was absent,
\* the previous handle if one was present).
C5_ConnectOutcome ==
    ConnectReturned =>
        /\ ret.val \in BOOLEAN
        /\ ret.val = TRUE => /\ kdb_connection = created
                             /\ kdb_connection # None
                             /\ kdb_connection # handle0
                             /\ OkCall("connect_to_kdb")
        /\ ret.val = FALSE => /\ kdb_connection = handle0
                              /\ FailedCall("connect_to_kdb")

C5_Witness ==
    pc = "idle" /\ op = "connect" /\ ret.val = FALSE /\ handle0 # None

\* C6 as stated: every query of length > 0 is valid.
C6_Original ==
    (pc = "idle" /\ op = "validate" /\ Len(ret.val.query) > 0) => ret.val.valid

\* C6 amended: every query that contains at least one non-whitespace
\* character is valid.
C6_NonBlankValid ==
    (pc = "idle" /\ op = "validate"
        /\ \E i \in DOMAIN ret.val.query : ret.val.query[i] \notin Whitespace)
    => ret.val.valid

C6_Witness ==
    /\ pc = "idle" /\ op = "validate" /\ ret.val.valid
    /\ \E i \in DOMAIN ret.val.query : ret.val.query[i] \in Whitespace

\* C7: in one execute_kdb_query call connect() runs at most once and only if
\* the handle was absent on entry, the handshake and the submission happen at
\* most once, and after a failed connect() neither happens.
C7_SingleAttempt ==
    op = "execute" =>
        /\ Count("connect_to_kdb") <= 1
        /\ Count("connect_to_kdb") = 1 => handle0 = None
        /\ Count("handshake") <= 1
        /\ Count("sync") <= 1
        /\ FailedCall("connect_to_kdb") =>
              (Count("handshake") = 0 /\ Count("sync") = 0)

C7_Witness ==
    ExecReturned /\ FailedCall("connect_to_kdb") /\ Count("connect_to_kdb") = 1

\* C8: a query is submitted only after a successful handshake issued earlier
\* in the same call, whether or not the handle existed on entry; a failed
\* handshake prevents the submission.
C8_HandshakeBeforeSubmit ==
    op = "execute" =>
        /\ \A i \in DOMAIN calls :
              calls[i].call = "sync" =>
                  \E j \in 1..(i - 1) : calls[j].call = "handshake" /\ calls[j].ok
        /\ FailedCall("handshake") => Count("sync") = 0

C8_Witness == ExecReturned /\ handle0 # None /\ Count("sync") = 1

\* C9: the handle changes only inside connect_to_kdb, and once present it is
\* never absent again.
C9_HandleFrame ==
    [][/\ kdb_connection' # kdb_connection => pc = "connect_to_kdb"
       /\ kdb_connection # None => kdb_connection' # None]_vars

C9_Witness ==
    ExecReturned /\ FailedCall("handshake") /\ kdb_connection # None
        /\ kdb_connection = handle0

\* C10: execute_kdb_query does not validate: once the handshake succeeded the
\* query is submitted exactly as given, also when validate_syntax calls it
\* invalid, and the envelope's query field is the exact input.
C10_NoValidation ==
    op = "execute" =>
        /\ \A i \in DOMAIN calls : calls[i].call = "sync" => calls[i].arg = query
        /\ (OkCall("handshake") /\ pc \notin {"sync"}) => Count("sync") = 1
        /\ pc = "idle" => (~ret.raised /\ ret.val.query = query)

C10_Witness ==
    /\ ExecReturned /\ ~ret.raised /\ ret.val.success
    /\ Len(query) > 0 /\ ~validate_syntax(query).valid
    /\ OkCall("sync")

====
